---- MODULE Spec2Model ----
(***************************************************************************)
(* A model of minituna_v1.rs: Storage, Sampler, Trial and Study, and of    *)
(* the Objective of example_quadratic.rs as an arbitrary caller of         *)
(* Trial::suggest_uniform.                                                 *)
(*                                                                         *)
(* f64 scores and parameter values are modelled by the integers            *)
(* 0..MaxValue, Option<T> by a sequence of length 0 (None) or 1 (Some),    *)
(* Result<T, TrialError> by a record [ok, val, msg], and a panic by the    *)
(* outcome "panic" of the operator in which it is raised.                  *)
(***************************************************************************)
EXTENDS Integers, Sequences, FiniteSets, TLC

VARIABLES
    storage,    \* Study.storage.trials (Storage.trials of the Storage under test)
    sampler,    \* Study.sampler.rng: [seed, pos], pos = number of draws taken
    trial,      \* the Trial handed to the running objective call, or NoTrial
    pc,         \* "client" | "loop" | "objective" | "done" | "panicked"
    n_trials,   \* the n_trials argument of the optimize call in progress
    iter,       \* iterations of `for _ in 0..n_trials` already finished
    start_len,  \* storage.trials.len() when optimize was called
    calls,      \* trial ids handed to objective.objective by this optimize call
    results,    \* what each finished objective call of this optimize call returned
    returned,   \* what each suggest_uniform call on the current Trial returned
    log,        \* lines written by eprintln! (line 208)
    last,       \* the last Storage call of the caller: arguments, result, storage before
    ncalls,     \* Storage calls the caller has made
    runs        \* two Samplers of one seed and what each was asked and returned

vars == <<storage, sampler, trial, pc, n_trials, iter, start_len, calls,
          results, returned, log, last, ncalls, runs>>

(***************************************************************************)
(* Bounds of the model.                                                    *)
(***************************************************************************)
MaxTrials == 3

MaxValue == 1

MaxStart == 2

MaxSuggest == 2

MaxCalls == 2

MaxDraws == 3

Seed == 1

Values == 0..MaxValue

Bounds == 0..(MaxValue + 1)

Names == {"x", "y"}

TrialIds == 0..MaxTrials

(***************************************************************************)
(* Option and Result.                                                      *)
(***************************************************************************)
None == <<>>

Some(v) == <<v>>

Ok(v) == [ok |-> TRUE, val |-> Some(v), msg |-> ""]

OkUnit == [ok |-> TRUE, val |-> None, msg |-> ""]

Err(m) == [ok |-> FALSE, val |-> None, msg |-> m]

FinishedMsg == "cannot update finished trial"

NotFoundMsg == "Not found specific trial"

(***************************************************************************)
(* TrialState and FrozenTrial.                                             *)
(***************************************************************************)
TrialState == {"Running", "Completed", "Failed"}

EmptyParams == [n \in {} |-> 0]

FrozenTrial_new(trial_id) ==
    [trial_id |-> trial_id, state |-> "Running", value |-> None,
     params |-> EmptyParams]

is_finished(t) == t.state # "Running"

(***************************************************************************)
(* Storage.  Vec index i is sequence position i + 1.                       *)
(***************************************************************************)
\* A create_new_trial that reads the length after the push.
create_new_trial_after_push(st) ==
    LET trial_id == Len(st) + 1
    IN  [storage |-> Append(st, FrozenTrial_new(trial_id)), trial_id |-> trial_id]

create_new_trial(st) ==
    LET trial_id == Len(st)
    IN  [storage |-> Append(st, FrozenTrial_new(trial_id)), trial_id |-> trial_id]

get_trial(st, trial_id) ==
    IF trial_id < Len(st) THEN Some(st[trial_id + 1]) ELSE None

\* Ord of Option<OrderedFloat<f64>>: None is less than every Some.
KeyLess(a, b) ==
    IF a = None THEN b # None
    ELSE IF b = None THEN FALSE
    ELSE a[1] < b[1]

\* Iterator::min_by_key: a later element replaces the best so far only when
\* its key is strictly less, so the first of several minima is returned.
RECURSIVE MinByKeyFrom(_, _, _)
MinByKeyFrom(best, s, i) ==
    IF i > Len(s) THEN best
    ELSE MinByKeyFrom(IF KeyLess(s[i].value, best.value) THEN s[i] ELSE best, s, i + 1)

min_by_key(s) ==
    IF Len(s) = 0 THEN None ELSE Some(MinByKeyFrom(s[1], s, 2))

IsCompleted(t) == t.state = "Completed"

\* A get_best_trial that ranks every trial, whatever its state.
get_best_trial_unfiltered(st) == min_by_key(st)

get_best_trial(st) == min_by_key(SelectSeq(st, IsCompleted))

\* A set_trial_value with the guard its message states, the guard of the
\* other setters left as it is.
set_trial_value_rejects_finished(st, trial_id, value) ==
    IF trial_id < Len(st)
    THEN IF is_finished(st[trial_id + 1])
         THEN [storage |-> st, result |-> Err(FinishedMsg)]
         ELSE [storage |-> [st EXCEPT ![trial_id + 1].value = Some(value)],
               result |-> OkUnit]
    ELSE [storage |-> st, result |-> OkUnit]

set_trial_value(st, trial_id, value) ==
    IF trial_id < Len(st)
    THEN IF ~is_finished(st[trial_id + 1])
         THEN [storage |-> st, result |-> Err(FinishedMsg)]
         ELSE [storage |-> [st EXCEPT ![trial_id + 1].value = Some(value)],
               result |-> OkUnit]
    ELSE [storage |-> st, result |-> OkUnit]

set_trial_state(st, trial_id, state) ==
    IF trial_id < Len(st)
    THEN IF ~is_finished(st[trial_id + 1])
         THEN [storage |-> st, result |-> Err(FinishedMsg)]
         ELSE [storage |-> [st EXCEPT ![trial_id + 1].state = state],
               result |-> OkUnit]
    ELSE [storage |-> st, result |-> OkUnit]

HashMap_insert(m, k, v) ==
    [n \in DOMAIN m \cup {k} |-> IF n = k THEN v ELSE m[n]]

\* A set_trial_param that reports a trial it does not find.
set_trial_param_not_found(st, trial_id, name, value) ==
    IF trial_id < Len(st)
    THEN IF ~is_finished(st[trial_id + 1])
         THEN [storage |-> st, result |-> Err(FinishedMsg)]
         ELSE [storage |-> [st EXCEPT ![trial_id + 1].params =
                                HashMap_insert(@, name, value)],
               result |-> OkUnit]
    ELSE [storage |-> st, result |-> Err("Not found specific trial")]

set_trial_param(st, trial_id, name, value) ==
    IF trial_id < Len(st)
    THEN IF ~is_finished(st[trial_id + 1])
         THEN [storage |-> st, result |-> Err(FinishedMsg)]
         ELSE [storage |-> [st EXCEPT ![trial_id + 1].params =
                                HashMap_insert(@, name, value)],
               result |-> OkUnit]
    ELSE [storage |-> st, result |-> OkUnit]

(***************************************************************************)
(* Sampler.  StdRng is modelled by its seed and the number of draws taken  *)
(* from it; the value of a draw is a fixed function of the two.            *)
(***************************************************************************)
Sampler_new(seed) == [seed |-> seed, pos |-> 0]

\* Rng::gen_range(low, high): panics unless low < high, else draws from
\* [low, high) and advances the generator.
gen_range(rng, low, high) ==
    IF ~(low < high)
    THEN [outcome |-> "panic", rng |-> rng, value |-> None]
    ELSE [outcome |-> "ok", rng |-> [rng EXCEPT !.pos = @ + 1],
          value |-> Some(low + ((rng.seed + 3 * rng.pos) % (high - low)))]

\* A sample_independent that lets the parameter name into the draw.
sample_independent_by_name(s, study, frozen, name, distribution) ==
    IF "low" \notin DOMAIN distribution THEN
        [outcome |-> "panic", sampler |-> s, value |-> None]
    ELSE IF "high" \notin DOMAIN distribution THEN
        [outcome |-> "panic", sampler |-> s, value |-> None]
    ELSE LET g == gen_range([s EXCEPT !.seed = IF name = "x" THEN @ ELSE @ + 1],
                            distribution["low"], distribution["high"])
         IN  [outcome |-> g.outcome, sampler |-> [s EXCEPT !.pos = g.rng.pos],
              value |-> g.value]

\* _study, _trial and _name are taken and not used.
sample_independent(s, study, frozen, name, distribution) ==
    IF "low" \notin DOMAIN distribution THEN
        [outcome |-> "panic", sampler |-> s, value |-> None]
    ELSE IF "high" \notin DOMAIN distribution THEN
        [outcome |-> "panic", sampler |-> s, value |-> None]
    ELSE LET g == gen_range(s, distribution["low"], distribution["high"])
         IN  [outcome |-> g.outcome, sampler |-> g.rng, value |-> g.value]

(***************************************************************************)
(* RefCell<Study>: the borrow flag is 0 when unborrowed, the number of     *)
(* readers when shared, -1 when borrowed mutably.  A refused borrow is a   *)
(* panic.                                                                  *)
(***************************************************************************)
borrow(flag) ==
    IF flag >= 0 THEN [ok |-> TRUE, flag |-> flag + 1]
    ELSE [ok |-> FALSE, flag |-> flag]

borrow_mut(flag) ==
    IF flag = 0 THEN [ok |-> TRUE, flag |-> -1]
    ELSE [ok |-> FALSE, flag |-> flag]

(***************************************************************************)
(* Study and Trial.                                                        *)
(***************************************************************************)
Study(st, s) == [storage |-> st, sampler |-> s]

NoTrial == [study |-> Study(<<>>, Sampler_new(0)), trial_id |-> -1, state |-> "none"]

\* study.clone(): the Trial owns a copy of the Study as it is now.
Trial_new(trial_id, study) ==
    [study |-> study, trial_id |-> trial_id, state |-> "Running"]

\* Line 137: the receiver self.study.borrow_mut() is evaluated, and still
\* held, when the argument &self.study.borrow() is evaluated.
SampleBorrows ==
    LET receiver == borrow_mut(0)
    IN  IF ~receiver.ok THEN FALSE ELSE borrow(receiver.flag).ok

suggest_uniform(t, name, low, high) ==
    LET maybe_trial == IF borrow(0).ok
                       THEN get_trial(t.study.storage, t.trial_id) ELSE None
    IN  IF ~borrow(0).ok THEN
            [outcome |-> "panic", trial |-> t, ret |-> Err("")]
        ELSE IF maybe_trial = None THEN
            [outcome |-> "returned", trial |-> t, ret |-> Err(NotFoundMsg)]
        ELSE IF ~SampleBorrows THEN
            [outcome |-> "panic", trial |-> t, ret |-> Err("")]
        ELSE
            LET distribution == [low |-> low, high |-> high]
                param == sample_independent(t.study.sampler, t.study,
                                            maybe_trial[1], name, distribution)
            IN  IF param.outcome = "panic" THEN
                    [outcome |-> "panic", trial |-> t, ret |-> Err("")]
                ELSE IF ~borrow_mut(0).ok THEN
                    [outcome |-> "panic", trial |-> t, ret |-> Err("")]
                ELSE
                    LET w == set_trial_param(t.study.storage, t.trial_id,
                                             name, param.value[1])
                    IN  [outcome |-> "returned",
                         trial |-> [t EXCEPT !.study =
                                        Study(w.storage, param.sampler)],
                         ret |-> IF w.result.ok THEN Ok(param.value[1])
                                 ELSE w.result]

\* An optimize that records the result under the id before the trial's.
record_result_previous_id(st, trial_id, value) ==
    LET id == IF trial_id > 0 THEN trial_id - 1 ELSE trial_id
    IN  IF ~value.ok THEN [storage |-> st, result |-> Err(value.msg)]
        ELSE LET a == set_trial_value(st, id, value.val[1])
             IN  IF ~a.result.ok THEN a
                 ELSE set_trial_state(a.storage, id, "Completed")

\* An optimize that marks the trial Failed when the objective failed.
record_result_marks_failed(st, trial_id, value) ==
    IF ~value.ok THEN set_trial_state(st, trial_id, "Failed")
    ELSE LET a == set_trial_value(st, trial_id, value.val[1])
         IN  IF ~a.result.ok THEN a
             ELSE set_trial_state(a.storage, trial_id, "Completed")

\* Lines 199-204: value.and_then(set_trial_value).and_then(set_trial_state).
record_result(st, trial_id, value) ==
    IF ~value.ok THEN [storage |-> st, result |-> Err(value.msg)]
    ELSE LET a == set_trial_value(st, trial_id, value.val[1])
         IN  IF ~a.result.ok THEN a
             ELSE set_trial_state(a.storage, trial_id, "Completed")

\* A match that drops the failure.
report_nothing(lg, trial_id, result) == lg

\* Lines 206-209: eprintln! of the failed trial.
report(lg, trial_id, result) ==
    IF result.ok THEN lg
    ELSE Append(lg, [trial_id |-> trial_id, message |-> result.msg])

\* An optimize that returns at the first failed trial.
next_iteration_abort(result) == IF result.ok THEN "loop" ELSE "done"

\* Lines 206-210: both arms of the match fall through to the end of the loop
\* body, and the loop goes on to its next iteration.
next_iteration(result) == "loop"

ObjectiveMsg == "objective failed"

ObjectiveResults == {Ok(v) : v \in Values} \cup {Err(ObjectiveMsg)}

\* Two Samplers made by Sampler::new(Seed), nothing asked of them yet.
NoRuns ==
    [a |-> Sampler_new(Seed), b |-> Sampler_new(Seed), asked |-> <<>>,
     out_a |-> <<>>, out_b |-> <<>>, aborted |-> FALSE]

NoCall ==
    [op |-> "none", trial_id |-> 0, name |-> "", value |-> None, state |-> "",
     result |-> OkUnit, pre |-> <<>>]

(***************************************************************************)
(* The caller of the Storage and of the Study.                             *)
(***************************************************************************)
AtClient == pc \in {"client", "done"}

UnchangedOptimize ==
    UNCHANGED <<sampler, trial, n_trials, iter, start_len, calls, results,
                returned, log, runs>>

CreateNewTrial ==
    /\ AtClient
    /\ ncalls < MaxCalls
    /\ Len(storage) < MaxTrials
    /\ ncalls' = ncalls + 1
    /\ storage' = create_new_trial(storage).storage
    /\ pc' = "client"
    /\ last' = [NoCall EXCEPT !.op = "create_new_trial", !.pre = storage,
                              !.trial_id = create_new_trial(storage).trial_id]
    /\ UnchangedOptimize

SetTrialValue ==
    \E trial_id \in TrialIds, value \in Values :
        LET r == set_trial_value(storage, trial_id, value)
        IN  /\ AtClient
            /\ ncalls < MaxCalls
            /\ ncalls' = ncalls + 1
            /\ storage' = r.storage
            /\ pc' = "client"
            /\ last' = [NoCall EXCEPT !.op = "set_trial_value", !.pre = storage,
                                      !.trial_id = trial_id,
                                      !.value = Some(value), !.result = r.result]
            /\ UnchangedOptimize

SetTrialState ==
    \E trial_id \in TrialIds, state \in TrialState :
        LET r == set_trial_state(storage, trial_id, state)
        IN  /\ AtClient
            /\ ncalls < MaxCalls
            /\ ncalls' = ncalls + 1
            /\ storage' = r.storage
            /\ pc' = "client"
            /\ last' = [NoCall EXCEPT !.op = "set_trial_state", !.pre = storage,
                                      !.trial_id = trial_id,
                                      !.state = state, !.result = r.result]
            /\ UnchangedOptimize

SetTrialParam ==
    \E trial_id \in TrialIds, name \in Names, value \in Values :
        LET r == set_trial_param(storage, trial_id, name, value)
        IN  /\ AtClient
            /\ ncalls < MaxCalls
            /\ ncalls' = ncalls + 1
            /\ storage' = r.storage
            /\ pc' = "client"
            /\ last' = [NoCall EXCEPT !.op = "set_trial_param", !.pre = storage,
                                      !.trial_id = trial_id, !.name = name,
                                      !.value = Some(value), !.result = r.result]
            /\ UnchangedOptimize

(***************************************************************************)
(* Study::optimize, cut at the calls of the objective.                     *)
(***************************************************************************)
Optimize ==
    \E n \in 0..MaxTrials :
        /\ AtClient
        /\ Len(storage) + n <= MaxTrials
        /\ pc' = "loop"
        /\ n_trials' = n
        /\ iter' = 0
        /\ start_len' = Len(storage)
        /\ calls' = <<>>
        /\ results' = <<>>
        /\ last' = NoCall
        /\ UNCHANGED <<storage, sampler, trial, returned, log, ncalls, runs>>

\* Lines 194-197: the next iteration, up to the call of the objective.
LoopIter ==
    LET c == create_new_trial(storage)
    IN  /\ pc = "loop"
        /\ iter < n_trials
        /\ storage' = c.storage
        /\ trial' = Trial_new(c.trial_id, Study(c.storage, sampler))
        /\ calls' = Append(calls, c.trial_id)
        /\ returned' = <<>>
        /\ pc' = "objective"
        /\ UNCHANGED <<sampler, n_trials, iter, start_len, results, log, last, ncalls, runs>>

\* The objective calls trial.suggest_uniform(name, low, high).
ObjSuggest ==
    \E name \in Names, low \in Bounds, high \in Bounds :
        LET r == suggest_uniform(trial, name, low, high)
        IN  /\ pc = "objective"
            /\ Len(returned) < MaxSuggest
            /\ trial' = r.trial
            /\ returned' = Append(returned, [name |-> name, outcome |-> r.outcome,
                                             ret |-> r.ret])
            /\ pc' = IF r.outcome = "panic" THEN "panicked" ELSE "objective"
            /\ UNCHANGED <<storage, sampler, n_trials, iter, start_len, calls,
                           results, log, last, ncalls, runs>>

\* The objective returns; lines 199-209 record its result.
ObjReturn ==
    \E value \in ObjectiveResults :
        LET r == record_result(storage, trial.trial_id, value)
        IN  /\ pc = "objective"
            /\ storage' = r.storage
            /\ log' = report(log, trial.trial_id, r.result)
            /\ results' = Append(results, [trial_id |-> trial.trial_id,
                                           value |-> value, result |-> r.result,
                                           returned |-> returned])
            /\ iter' = iter + 1
            /\ trial' = NoTrial
            /\ pc' = next_iteration(r.result)
            /\ UNCHANGED <<sampler, n_trials, start_len, calls, returned, last, ncalls, runs>>

\* The loop of line 194 ends and optimize returns.
OptimizeReturn ==
    /\ pc = "loop"
    /\ iter = n_trials
    /\ pc' = "done"
    /\ UNCHANGED <<storage, sampler, trial, n_trials, iter, start_len, calls,
                   results, returned, log, last, ncalls, runs>>

Init ==
    /\ storage = <<>>
    /\ sampler = Sampler_new(Seed)
    /\ trial = NoTrial
    /\ pc = "client"
    /\ n_trials = 0
    /\ iter = 0
    /\ start_len = 0
    /\ calls = <<>>
    /\ results = <<>>
    /\ returned = <<>>
    /\ log = <<>>
    /\ last = NoCall
    /\ ncalls = 0
    /\ runs = NoRuns

Next ==
    \/ CreateNewTrial
    \/ SetTrialValue
    \/ SetTrialState
    \/ SetTrialParam
    \/ Optimize
    \/ LoopIter
    \/ ObjSuggest
    \/ ObjReturn
    \/ OptimizeReturn

Spec == Init /\ [][Next]_vars

(***************************************************************************)
(* The Storage alone, as a function of its contents.  Storage has no       *)
(* constructor: a Storage is built from a Vec<FrozenTrial>, and the        *)
(* methods are applied to every such Storage of up to MaxStart trials in   *)
(* which trial_id is the position, a value is present exactly in a         *)
(* Completed trial and no parameter is recorded yet.                       *)
(***************************************************************************)
TrialInputs ==
    {[trial_id |-> i, state |-> s, value |-> v, params |-> EmptyParams] :
        i \in 0..(MaxStart - 1), s \in TrialState,
        v \in {None} \cup {Some(x) : x \in Values}}

StorageInputs ==
    {st \in UNION {[1..n -> TrialInputs] : n \in 0..MaxStart} :
        \A i \in 1..Len(st) :
            /\ st[i].trial_id = i - 1
            /\ (st[i].value # None) <=> (st[i].state = "Completed")}

InitStorage ==
    /\ storage \in StorageInputs
    /\ sampler = Sampler_new(Seed)
    /\ trial = NoTrial
    /\ pc = "client"
    /\ n_trials = 0
    /\ iter = 0
    /\ start_len = 0
    /\ calls = <<>>
    /\ results = <<>>
    /\ returned = <<>>
    /\ log = <<>>
    /\ last = NoCall
    /\ ncalls = 0
    /\ runs = NoRuns

NextStorage ==
    \/ CreateNewTrial
    \/ SetTrialValue
    \/ SetTrialState
    \/ SetTrialParam

SpecStorage == InitStorage /\ [][NextStorage]_vars

(***************************************************************************)
(* Study::optimize on a Study assembled from any of these Storages.        *)
(***************************************************************************)
NextStudy ==
    \/ Optimize
    \/ LoopIter
    \/ ObjSuggest
    \/ ObjReturn
    \/ OptimizeReturn

SpecStudy == InitStorage /\ [][NextStudy]_vars

(***************************************************************************)
(* The Sampler alone: one sequence of sample_independent calls made on two *)
(* Samplers of one seed, each with a study, trial and name of its own.  A  *)
(* descriptor is any map of a subset of the keys "low" and "high".         *)
(***************************************************************************)
Distributions == UNION {[K -> Bounds] : K \in SUBSET {"low", "high"}}

SampleIndependent ==
    \E d \in Distributions, name_a \in Names, name_b \in Names,
       id_a \in 0..1, id_b \in 0..1 :
        LET ra == sample_independent(runs.a, Study(<<>>, runs.a),
                                     FrozenTrial_new(id_a), name_a, d)
            rb == sample_independent(runs.b,
                                     Study(<<FrozenTrial_new(0)>>, runs.b),
                                     FrozenTrial_new(id_b), name_b, d)
        IN  /\ ~runs.aborted
            /\ Len(runs.asked) < MaxDraws
            /\ runs' = [a |-> ra.sampler, b |-> rb.sampler,
                        asked |-> Append(runs.asked, d),
                        out_a |-> Append(runs.out_a,
                                    [outcome |-> ra.outcome, value |-> ra.value]),
                        out_b |-> Append(runs.out_b,
                                    [outcome |-> rb.outcome, value |-> rb.value]),
                        aborted |-> ra.outcome = "panic" \/ rb.outcome = "panic"]
            /\ UNCHANGED <<storage, sampler, trial, pc, n_trials, iter,
                           start_len, calls, results, returned, log, last,
                           ncalls>>

NextSampler == SampleIndependent

SpecSampler == Init /\ [][NextSampler]_vars

(***************************************************************************)
(* optimize is sequential code: once called it runs its loop on, provided  *)
(* each call of the objective returns.                                     *)
(***************************************************************************)
LiveSpec ==
    /\ Init
    /\ [][Next]_vars
    /\ WF_vars(LoopIter)
    /\ WF_vars(ObjReturn)
    /\ WF_vars(OptimizeReturn)

(***************************************************************************)
(* The claims.                                                             *)
(***************************************************************************)
SetterOps == {"set_trial_value", "set_trial_state", "set_trial_param"}

\* The trial the last setter call addressed, as it was before the call.
LastTarget == last.pre[last.trial_id + 1]

LastFound == last.op \in SetterOps /\ last.trial_id < Len(last.pre)

\* C1: after optimize(objective, N) on an empty Storage has returned, the
\* Storage holds exactly N trials and the trial at position i has trial_id i.
C1_OptimizeFillsStorage ==
    (pc = "done" /\ start_len = 0) =>
        /\ Len(storage) = n_trials
        /\ \A i \in 0..(n_trials - 1) : storage[i + 1].trial_id = i

\* An optimize of two trials on an empty Storage has returned, one objective
\* call having failed and one having returned a score.
C1_Witness ==
    /\ pc = "done"
    /\ start_len = 0
    /\ n_trials >= 2
    /\ \E k \in DOMAIN results : results[k].value.ok
    /\ \E k \in DOMAIN results : ~results[k].value.ok

\* C2: when an iteration of optimize whose objective returned the score v
\* ends, the iteration's trial is recorded Completed with value v.
C2_ScoreRecorded ==
    (pc = "loop" /\ Len(results) > 0 /\ results[Len(results)].value.ok) =>
        LET r == results[Len(results)]
        IN  /\ storage[r.trial_id + 1].state = "Completed"
            /\ storage[r.trial_id + 1].value = r.value.val

\* C3: a setter called on an existing trial that is Completed or Failed
\* fails with "cannot update finished trial" and changes nothing.
C3_FinishedRejected ==
    (LastFound /\ LastTarget.state \in {"Completed", "Failed"}) =>
        /\ ~last.result.ok
        /\ last.result.msg = FinishedMsg
        /\ storage = last.pre

\* The Storage as the last setter call should have left it: the one field
\* the call names set to its argument.
C4_Written ==
    LET k == last.trial_id + 1
    IN  CASE last.op = "set_trial_value" ->
                [last.pre EXCEPT ![k].value = last.value]
          [] last.op = "set_trial_state" ->
                [last.pre EXCEPT ![k].state = last.state]
          [] OTHER ->
                [last.pre EXCEPT ![k].params =
                    [n \in DOMAIN @ \cup {last.name} |->
                        IF n = last.name THEN last.value[1] ELSE @[n]]]

\* C4: a setter called on an existing Running trial succeeds and sets exactly
\* the field it names (value, state or params[name]) to its argument.
C4_RunningAccepted ==
    (LastFound /\ LastTarget.state = "Running") =>
        /\ last.result.ok
        /\ storage = C4_Written

\* The rank of a value field: an absent value ranks below every present one
\* (the order of the key Option<OrderedFloat<f64>>).
C5_Rank(v) == IF v = None THEN -1 ELSE v[1]

C5_Completed == {i \in 1..Len(storage) : storage[i].state = "Completed"}

\* C5: get_best_trial returns nothing when no trial is Completed; otherwise
\* it returns a Completed trial whose value is the minimum over the Completed
\* trials, the one of lowest trial_id among those of that value; a Running or
\* Failed trial is never returned.
C5_BestTrial ==
    LET best == get_best_trial(storage)
    IN  IF C5_Completed = {} THEN best = None
        ELSE \E i \in C5_Completed :
                /\ best = Some(storage[i])
                /\ \A j \in C5_Completed :
                    /\ C5_Rank(storage[i].value) <= C5_Rank(storage[j].value)
                    /\ C5_Rank(storage[i].value) = C5_Rank(storage[j].value)
                           => storage[i].trial_id <= storage[j].trial_id

\* Two Completed trials of one value and a Running trial created after
\* them: the first of the two is the best trial.
C5_Witness ==
    /\ Len(storage) = 3
    /\ storage[1].state = "Completed"
    /\ storage[2].state = "Completed"
    /\ storage[1].value # None
    /\ storage[1].value = storage[2].value
    /\ storage[3].state = "Running"
    /\ get_best_trial(storage) = Some(storage[1])

\* No suggest_uniform call has returned and no generator has been drawn from:
\* the case claims C6 and C7 speak of.
NoValueEverReturned ==
    /\ sampler.pos = 0
    /\ trial.study.sampler.pos = 0
    /\ \A k \in DOMAIN returned : returned[k].outcome = "panic"
    /\ \A k \in DOMAIN results : results[k].returned = <<>>

\* C8: a trial that is Completed or Failed keeps its state in every step,
\* and a trial is Running when it has just been created.
C8_FinishedIsFinal ==
    /\ [][\A i \in 1..Len(storage) :
            is_finished(storage[i]) =>
                /\ i <= Len(storage')
                /\ storage'[i].state = storage[i].state]_vars
    /\ [](last.op = "create_new_trial" =>
            storage[Len(storage)].state = "Running")

\* What optimize has done when it stands between two iterations or has
\* returned: the objective was called once for each trial id from start_len
\* on, in increasing order, and each call was followed by the next.
C9_Invoked ==
    /\ pc \in {"loop", "done"} =>
        /\ iter <= n_trials
        /\ Len(results) = iter
        /\ calls = [k \in 1..iter |-> start_len + k - 1]
    /\ pc = "done" => iter = n_trials
    /\ (pc = "loop" /\ iter < n_trials) => ENABLED LoopIter

\* C9: optimize(objective, N) ends (returns, or the process has aborted inside
\* an objective call) and, when it returns, has called the objective exactly N
\* times, once per new trial id in increasing order, whatever failed.
C9_OptimizeTerminates ==
    /\ []C9_Invoked
    /\ (pc \in {"loop", "objective"}) ~> (pc \in {"done", "panicked"})

\* optimize has returned from two iterations or more, the first of which
\* failed in the objective and a later one in set_trial_value.
C9_Witness ==
    /\ pc = "done"
    /\ Len(results) >= 2
    /\ ~results[1].value.ok
    /\ \E k \in 2..Len(results) : results[k].value.ok /\ ~results[k].result.ok
    /\ calls = [k \in 1..n_trials |-> start_len + k - 1]

\* C10: a suggest_uniform call on the Trial of an existing Running trial
\* returns (a value or a failure); it never aborts the process.
C10_SuggestReturns ==
    /\ pc # "panicked"
    /\ \A k \in DOMAIN returned : returned[k].outcome = "returned"

\* The lines of the log tagged with trial id t.
C11_Lines(t) == {j \in DOMAIN log : log[j].trial_id = t}

\* C11: every iteration of optimize that failed (in the objective or in a
\* setter) has written exactly one line, tagged with its trial id and holding
\* its failure message, and optimize went on (nothing was raised); an
\* iteration that succeeded has written none.
C11_OneLinePerFailure ==
    /\ \A k \in DOMAIN results :
        LET r == results[k]
        IN  IF r.result.ok THEN C11_Lines(r.trial_id) = {}
            ELSE /\ Cardinality(C11_Lines(r.trial_id)) = 1
                 /\ \A j \in C11_Lines(r.trial_id) : log[j].message = r.result.msg
    /\ pc = "panicked" =>
        /\ returned # <<>>
        /\ returned[Len(returned)].outcome = "panic"

\* optimize has returned after an iteration whose objective failed and an
\* iteration whose set_trial_value failed; the log holds a line of each.
C11_Witness ==
    /\ pc = "done"
    /\ \E k \in DOMAIN results : ~results[k].value.ok
    /\ \E k \in DOMAIN results : results[k].value.ok /\ ~results[k].result.ok
    /\ \E j \in DOMAIN log : log[j].message = ObjectiveMsg
    /\ \E j \in DOMAIN log : log[j].message = FinishedMsg

\* C14: a setter called with an id that no trial has returns success and
\* leaves the Storage as it was.
C14_AbsentIsNoOp ==
    (last.op \in SetterOps /\ last.trial_id >= Len(last.pre)) =>
        /\ last.result.ok
        /\ storage = last.pre

\* set_trial_param has just been called on a Storage of one trial or more
\* with the id of no trial.
C14_Witness ==
    /\ last.op = "set_trial_param"
    /\ Len(last.pre) >= 1
    /\ last.trial_id >= Len(last.pre)
    /\ last.result.ok
    /\ storage = last.pre

\* C16: in every state the trial at position i has trial_id i; no step
\* removes a trial or changes the trial_id at a position.
C16_IdsArePositions ==
    /\ [](\A i \in 1..Len(storage) : storage[i].trial_id = i - 1)
    /\ [][/\ Len(storage') >= Len(storage)
          /\ \A i \in 1..Len(storage) :
                storage'[i].trial_id = storage[i].trial_id]_vars

\* A Storage of three trials, made by create_new_trial and by optimize, on
\* which a setter has then been called.
C16_Witness ==
    /\ Len(storage) = 3
    /\ start_len >= 1
    /\ Len(results) >= 1
    /\ last.op \in SetterOps
    /\ \A i \in 1..3 : storage[i].trial_id = i - 1

\* C18: the iteration of a failed objective call passes the objective's
\* failure on without calling a setter: the Storage is as before, the
\* iteration's trial Running with no value.
C18_FailedObjectiveWritesNothing ==
    [][(/\ pc = "objective"
        /\ Len(results') = Len(results) + 1
        /\ ~results'[Len(results')].value.ok) =>
            /\ storage' = storage
            /\ storage'[trial.trial_id + 1].state = "Running"
            /\ storage'[trial.trial_id + 1].value = None
            /\ results'[Len(results')].result = results'[Len(results')].value
            /\ log' = Append(log, [trial_id |-> trial.trial_id,
                                   message |-> ObjectiveMsg])]_vars

\* The second iteration of an optimize call has ended with the objective
\* failing; its trial is Running with no value.
C18_Witness ==
    /\ pc = "loop"
    /\ Len(results) = 2
    /\ ~results[2].value.ok
    /\ storage[results[2].trial_id + 1].state = "Running"
    /\ storage[results[2].trial_id + 1].value = None

\* C12: through the steps of optimize the best trial, once there is one,
\* stays present and its value never increases; when the first trial is
\* Completed the best trial's value is at most the first trial's.
C12_BestIsMonotone ==
    /\ []((Len(storage) > 0 /\ storage[1].state = "Completed") =>
            /\ get_best_trial(storage) # None
            /\ C5_Rank(get_best_trial(storage)[1].value)
                   <= C5_Rank(storage[1].value))
    /\ [][get_best_trial(storage) # None =>
            /\ get_best_trial(storage') # None
            /\ C5_Rank(get_best_trial(storage')[1].value)
                   <= C5_Rank(get_best_trial(storage)[1].value)]_vars

\* optimize has returned from an iteration whose objective returned a score,
\* on a Storage whose first trial is Completed and whose second trial is
\* Completed with a lower value: that second trial is the best trial.
C12_Witness ==
    /\ pc = "done"
    /\ Len(results) >= 1
    /\ results[1].value.ok
    /\ storage[1].state = "Completed"
    /\ storage[2].state = "Completed"
    /\ C5_Rank(storage[2].value) < C5_Rank(storage[1].value)
    /\ get_best_trial(storage) = Some(storage[2])

\* C17: between two iterations of optimize and after it has returned, a trial
\* has a value exactly when it is Completed.
C17_ValueIffCompleted ==
    pc \in {"loop", "done"} =>
        \A i \in 1..Len(storage) :
            (storage[i].value # None) <=> (storage[i].state = "Completed")

\* An iteration whose objective returned a score has ended; the Storage
\* holds a Completed trial with its value and a Running trial with none.
C17_Witness ==
    /\ pc = "loop"
    /\ Len(results) >= 1
    /\ results[Len(results)].value.ok
    /\ \E i \in 1..Len(storage) :
        storage[i].state = "Completed" /\ storage[i].value # None
    /\ \E i \in 1..Len(storage) :
        storage[i].state = "Running" /\ storage[i].value = None

C15_MissingBoundFails ==
    \A k \in DOMAIN runs.asked :
        ~({"low", "high"} \subseteq DOMAIN runs.asked[k]) =>
            /\ runs.out_a[k].outcome = "err"
            /\ ~runs.aborted

\* C20: every trial get_best_trial returns has a value, after any calls of
\* create_new_trial, set_trial_value and set_trial_state.
C20_BestHasValue ==
    get_best_trial(storage) # None =>
        get_best_trial(storage)[1].value # None

====
